---- MODULE Spec2Model ----
(***************************************************************************)
(* Model of the sysir language frontend (examples/sysir/frontend.janet):   *)
(* the slot registry, the expression compiler visit1 with its two reducers *)
(* do-binop and do-comp, and the top-level function emitter `top`          *)
(* (specification Spec); and of the inotify file watcher of                *)
(* src/core/filewatch.c (specification FwSpec).  Each specification leaves *)
(* the other part's variables at their initial values.                     *)
(*                                                                         *)
(* Janet values are encoded as records with a fixed set of fields so that  *)
(* any two of them can be compared:                                        *)
(*   forms     [tag, name, tp, args]    (tp: the part of a symbol after    *)
(*                                       its first ":", Nil when absent)   *)
(*   operands  [k, i, t, v]                                                *)
(*   instrs    [op, args]               (args: sequence of operands)       *)
(***************************************************************************)
EXTENDS Integers, Sequences, FiniteSets, TLC

\* ------------------------------------------------------------------ bounds
MaxArgs == 3      \* longest operand list of an arithmetic / comparison form
MaxParams == 2    \* longest parameter list of a defn
MaxFns == 2       \* number of defn forms compiled in one run
MaxEvents == 3    \* inotify events the kernel queues in one run

\* ------------------------------------------------------------------ values
Nil == "nil"

NilV == [k |-> "nil", i |-> 0, t |-> Nil, v |-> Nil]
SlotV(i) == [k |-> "slot", i |-> i, t |-> Nil, v |-> Nil]
ConstV(t, v) == [k |-> "const", i |-> 0, t |-> t, v |-> v]
SymV(s) == IF s = Nil THEN NilV ELSE [k |-> "symbol", i |-> 0, t |-> Nil, v |-> s]
LabV(n) == [k |-> "label", i |-> n, t |-> Nil, v |-> Nil]
StrV(s) == [k |-> "string", i |-> 0, t |-> Nil, v |-> s]
NumV(n) == [k |-> "number", i |-> n, t |-> Nil, v |-> Nil]
KwV(s) == [k |-> "keyword", i |-> 0, t |-> Nil, v |-> s]
PtrV(s) == [k |-> "pointer", i |-> 0, t |-> Nil, v |-> s]

Ins(op, args) == [op |-> op, args |-> args]

\* ------------------------------------------------------------------- forms
Atom(tag, name) == [tag |-> tag, name |-> name, tp |-> Nil, args |-> <<>>]
Num(v) == Atom("number", v)
Str(v) == Atom("string", v)
Bool(v) == Atom("boolean", v)
U64(v) == Atom("u64", v)
S64(v) == Atom("s64", v)
NilForm == Atom("nil", Nil)
Sym(n) == Atom("symbol", n)
SymT(n, t) == [tag |-> "symbol", name |-> n, tp |-> t, args |-> <<>>]
App(op, args) == [tag |-> "tuple", name |-> op, tp |-> Nil, args |-> args]
EmptyTuple == App(Nil, <<>>)

\* --------------------------------------------------------------- registry
EmptyTable == [x \in {} |-> 0]

Put(tab, key, val) == [x \in (DOMAIN tab) \cup {key} |-> IF x = key THEN val ELSE tab[x]]

\* faulty variant of get-slot: the index is taken after the push
GetSlotSkipsZero(st, newName) ==
    LET nextSlot == Len(st.s2n) + 1
    IN [st |-> [st EXCEPT !.s2n = Append(@, newName),
                          !.n2s = IF newName # Nil THEN Put(@, newName, nextSlot) ELSE @,
                          !.allocs = Append(@, nextSlot)],
        slot |-> nextSlot]

\* faulty variant of get-slot: the name is never put into name-to-slot
GetSlotNoPut(st, newName) ==
    LET nextSlot == Len(st.s2n)
    IN [st |-> [st EXCEPT !.s2n = Append(@, newName),
                          !.allocs = Append(@, nextSlot)],
        slot |-> nextSlot]

\* get-slot; allocs keeps the history of the indices it returned
GetSlot(st, newName) ==
    LET nextSlot == Len(st.s2n)
    IN [st |-> [st EXCEPT !.s2n = Append(@, newName),
                          !.n2s = IF newName # Nil THEN Put(@, newName, nextSlot) ELSE @,
                          !.allocs = Append(@, nextSlot)],
        slot |-> nextSlot]

\* (get name-to-slot name): the key is the whole symbol, so a symbol that
\* carries a ":type" part never matches a registered bare name.
Lookup(n2s, sym) ==
    IF sym.tag = "symbol" /\ sym.tp = Nil /\ sym.name \in DOMAIN n2s
    THEN SlotV(n2s[sym.name]) ELSE NilV

\* faulty variant of named-slot: slot 0 is taken for a missing entry
NamedSlotZeroFalsy(n2s, sym) ==
    LET got == Lookup(n2s, sym)
    IN IF got.k = "nil" \/ got.i = 0 THEN [res |-> NilV, err |-> "UnboundName"]
       ELSE [res |-> got, err |-> ""]

\* (assert (get name-to-slot name)): only nil and false fail, 0 does not
NamedSlot(n2s, sym) ==
    LET got == Lookup(n2s, sym)
    IN IF got.k = "nil" THEN [res |-> NilV, err |-> "UnboundName"]
       ELSE [res |-> got, err |-> ""]

ClearRegistry(st) == [st EXCEPT !.n2s = EmptyTable, !.s2n = <<>>, !.allocs = <<>>]

TypeExtract(sym, defaultType) ==
    [name |-> sym.name, tp |-> IF sym.tp # Nil THEN sym.tp ELSE defaultType]

Gensym(st) == [st |-> [st EXCEPT !.gen = @ + 1], lab |-> st.gen + 1]

\* ------------------------------------------------------- visit1 plumbing
Ok(st, res) == [st |-> st, res |-> res, err |-> ""]
Err(st, e) == [st |-> st, res |-> NilV, err |-> e]
Push(st, ins) == [st EXCEPT !.into = Append(@, ins)]
Or(a, b) == IF a # Nil THEN a ELSE b

ArithOps == {"+", "-", "*", "/", "<<", ">>"}
CompOps == {"=", "not=", "<", "<=", ">", ">="}

Opcode(op) ==
    CASE op = "+" -> "add" [] op = "-" -> "subtract" [] op = "*" -> "multiply"
      [] op = "/" -> "divide" [] op = "<<" -> "shl" [] op = ">>" -> "shr"
      [] op = "=" -> "eq" [] op = "not=" -> "neq" [] op = "<" -> "lt"
      [] op = "<=" -> "lte" [] op = ">" -> "gt" [] op = ">=" -> "gte"
      [] OTHER -> op

\* (or type-hint 'long) etc.: the constant a literal compiles to
Literal(code, hint) ==
    CASE code.tag = "string" -> ConstV("pointer", code.name)
      [] code.tag = "boolean" -> ConstV("boolean", code.name)
      [] code.tag = "number" -> ConstV(Or(hint, "long"), code.name)
      [] code.tag = "u64" -> ConstV(Or(hint, "ulong"), code.name)
      [] code.tag = "s64" -> ConstV(Or(hint, "long"), code.name)

\* faulty variant of the tail of `the`: the constant's type is not compared
TheResultUnchecked(st, result, xtype) ==
    IF result.k = "const"
    THEN Ok(st, ConstV(xtype, result.v))
    ELSE Ok(Push(st, Ins("bind", <<result, SymV(xtype)>>)), result)

\* tail of the `the` form, once x has been compiled to `result`
TheResult(st, result, xtype) ==
    IF result.k = "const"
    THEN IF result.t = xtype THEN Ok(st, ConstV(xtype, result.v))
         ELSE Err(st, "TypeMismatch")
    ELSE Ok(Push(st, Ins("bind", <<result, SymV(xtype)>>)), result)

\* faulty variant of the fold step: accumulator and new operand swapped
BinopStepSwapped(st, opcode, final, right) ==
    LET gs == GetSlot(st, Nil)
        result == SlotV(gs.slot)
        s1 == Push(gs.st, Ins("bind", <<result, SymV("int")>>))
    IN [st |-> Push(s1, Ins(opcode, <<result, right, final>>)), res |-> result]

\* one fold step of do-binop with a non-nil accumulator
BinopStep(st, opcode, final, right) ==
    LET gs == GetSlot(st, Nil)
        result == SlotV(gs.slot)
        s1 == Push(gs.st, Ins("bind", <<result, SymV("int")>>))
    IN [st |-> Push(s1, Ins(opcode, <<result, final, right>>)), res |-> result]

\* faulty variant of needs-temp: also true for exactly 2 operands
NeedsTempAtTwo(args) == 2 >= Len(args)

\* (def needs-temp (> 2 (length args)))
NeedsTemp(args) == 2 > Len(args)

\* prologue of do-comp: result slot, optional temporary, their binds
CompSetup(st, args) ==
    LET g1 == GetSlot(st, Nil)
        result == SlotV(g1.slot)
        needsTemp == NeedsTemp(args)
        g2 == IF needsTemp THEN GetSlot(g1.st, Nil) ELSE [st |-> g1.st, slot |-> 0]
        temp == IF needsTemp THEN SlotV(g2.slot) ELSE NilV
        s1 == Push(g2.st, Ins("bind", <<result, SymV("boolean")>>))
        s2 == IF needsTemp THEN Push(s1, Ins("bind", <<temp, SymV("boolean")>>)) ELSE s1
    IN [st |-> s2, result |-> result, temp |-> temp]

\* the instructions one iteration of do-comp pushes when `left` is set
CompStep(st, opcode, result, temp, left, right, first) ==
    IF first
    THEN Push(st, Ins(opcode, <<result, left, right>>))
    ELSE Push(Push(st, Ins(opcode, <<temp, left, right>>)),
              Ins("and", <<result, temp, result>>))

RawIns(form) == Ins(form.name, <<>>)

RECURSIVE Visit(_, _, _, _)
RECURSIVE VisitEach(_, _, _)
RECURSIVE VisitArgs(_, _, _, _)
RECURSIVE DoBinopLoop(_, _, _, _, _, _)
RECURSIVE DoCompLoop(_, _, _, _, _, _, _, _)
RECURSIVE PushAll(_, _, _)

\* (each code forms (visit1 code into true))
VisitEach(forms, k, st) ==
    IF k > Len(forms) THEN Ok(st, NilV)
    ELSE LET r == Visit(forms[k], st, TRUE, Nil)
         IN IF r.err # "" THEN r ELSE VisitEach(forms, k + 1, r.st)

\* (each arg args (array/push slots (visit1 arg into)))
VisitArgs(args, k, st, slots) ==
    IF k > Len(args) THEN [st |-> st, slots |-> slots, err |-> ""]
    ELSE LET r == Visit(args[k], st, FALSE, Nil)
         IN IF r.err # "" THEN [st |-> r.st, slots |-> slots, err |-> r.err]
            ELSE VisitArgs(args, k + 1, r.st, Append(slots, r.res))

DoBinopLoop(opcode, args, k, st, final, hint) ==
    IF k > Len(args)
    THEN IF final.k = "nil" THEN Err(st, "ArityError") ELSE Ok(st, final)
    ELSE LET r == Visit(args[k], st, FALSE, hint)
         IN IF r.err # "" THEN r
            ELSE IF final.k # "nil"
                 THEN LET b == BinopStep(r.st, opcode, final, r.res)
                      IN DoBinopLoop(opcode, args, k + 1, b.st, b.res, hint)
                 ELSE DoBinopLoop(opcode, args, k + 1, r.st, r.res, hint)

DoBinop(opcode, args, st, hint) == DoBinopLoop(opcode, args, 1, st, NilV, hint)

DoCompLoop(opcode, args, k, st, result, temp, left, first) ==
    IF k > Len(args) THEN Ok(st, result)
    ELSE LET r == Visit(args[k], st, FALSE, Nil)
         IN IF r.err # "" THEN r
            ELSE IF left.k # "nil"
                 THEN DoCompLoop(opcode, args, k + 1,
                                 CompStep(r.st, opcode, result, temp, left, r.res, first),
                                 result, temp, r.res, FALSE)
                 ELSE DoCompLoop(opcode, args, k + 1, r.st, result, temp, r.res, first)

DoComp(opcode, args, st) ==
    LET c == CompSetup(st, args)
    IN DoCompLoop(opcode, args, 1, c.st, c.result, c.temp, NilV, TRUE)

PushAll(st, forms, k) ==
    IF k > Len(forms) THEN st ELSE PushAll(Push(st, RawIns(forms[k])), forms, k + 1)

VisitThe(args, st) ==
    IF Len(args) # 2 THEN Err(st, "ArityError")
    ELSE LET xtype == args[1].name
             r == Visit(args[2], st, FALSE, xtype)
         IN IF r.err # "" THEN r ELSE TheResult(r.st, r.res, xtype)

\* def and var have the same lowering
VisitDef(args, st) ==
    IF Len(args) # 2 THEN Err(st, "ArityError")
    ELSE IF args[1].tag # "symbol" THEN Err(st, "UnsupportedForm")
    ELSE LET te == TypeExtract(args[1], "int")
             r == Visit(args[2], st, FALSE, te.tp)
             gs == GetSlot(r.st, te.name)
             slot == SlotV(gs.slot)
             s1 == IF te.tp # Nil THEN Push(gs.st, Ins("bind", <<slot, SymV(te.tp)>>))
                   ELSE gs.st
         IN IF r.err # "" THEN r
            ELSE Ok(Push(s1, Ins("move", <<slot, r.res>>)), slot)

VisitSet(args, st) ==
    IF Len(args) # 2 THEN Err(st, "ArityError")
    ELSE LET r == Visit(args[2], st, FALSE, Nil)
             to == NamedSlot(r.st.n2s, args[1])
         IN IF r.err # "" THEN r
            ELSE IF to.err # "" THEN Err(r.st, to.err)
            ELSE Ok(Push(r.st, Ins("move", <<to.res, r.res>>)), to.res)

\* faulty variant: `return` compiles its argument without a hint
RetHintNone(st) == Nil

\* (dyn *ret-type*)
RetHint(st) == st.rt

VisitReturn(args, st) ==
    IF ~(1 >= Len(args)) THEN Err(st, "ArityError")
    ELSE IF Len(args) = 0 THEN Ok(Push(st, Ins("return", <<>>)), NilV)
    ELSE LET r == Visit(args[1], st, FALSE, RetHint(st))
         IN IF r.err # "" THEN r
            ELSE Ok(Push(r.st, Ins("return", <<r.res>>)), NilV)

\* (slice args 0 -2) rejects an empty argument tuple
VisitDo(args, st, hint) ==
    IF Len(args) = 0 THEN Err(st, "ArityError")
    ELSE LET e == VisitEach(SubSeq(args, 1, Len(args) - 1), 1, st)
         IN IF e.err # "" THEN e
            ELSE Visit(args[Len(args)], e.st, FALSE, hint)

\* faulty variant of the end of `while`: the back jump goes to the exit label
WhileTailToExit(st, labTest, labExit) ==
    Push(Push(st, Ins("jump", <<LabV(labExit)>>)), Ins("label", <<LabV(labExit)>>))

\* end of `while`: (jump lab-test), then the marker lab-exit
WhileTail(st, labTest, labExit) ==
    Push(Push(st, Ins("jump", <<LabV(labTest)>>)), Ins("label", <<LabV(labExit)>>))

\* faulty variant of the loop test: leaves the loop when the condition holds
WhileTestBranch(st, cond, labExit) == Push(st, Ins("branch", <<cond, LabV(labExit)>>))

\* (array/push into ~(branch-not ,condition-slot ,lab-exit))
WhileTest(st, cond, labExit) == Push(st, Ins("branch-not", <<cond, LabV(labExit)>>))

VisitWhile(args, st) ==
    LET g1 == Gensym(st)
        g2 == Gensym(g1.st)
        labTest == g1.lab
        labExit == g2.lab
    IN IF ~(1 < Len(args)) THEN Err(g2.st, "ArityError")
       ELSE LET s1 == Push(g2.st, Ins("label", <<LabV(labTest)>>))
                c == Visit(args[1], s1, FALSE, "boolean")
                s2 == WhileTest(c.st, c.res, labExit)
                b == VisitEach(SubSeq(args, 2, Len(args)), 1, s2)
            IN IF c.err # "" THEN c
               ELSE IF b.err # "" THEN b
               ELSE Ok(WhileTail(b.st, labTest, labExit), NilV)

\* faulty variant of the arity check of `if`: the upper bound is dropped
IfArityAtLeastThree(args) == 2 < Len(args)

\* (assert (< 2 (length args) 4))
IfArity(args) == 2 < Len(args) /\ Len(args) < 4

\* faulty variant of the end of the first arm: no jump over the second arm
IfElseNoJump(st, ret, val, lab, labEnd) ==
    Push(Push(st, Ins("move", <<ret, val>>)), Ins("label", <<LabV(lab)>>))

\* end of the first arm of `if`: move into ret, (jump lab-end), marker lab
IfElse(st, ret, val, lab, labEnd) ==
    Push(Push(Push(st, Ins("move", <<ret, val>>)), Ins("jump", <<LabV(labEnd)>>)),
         Ins("label", <<LabV(lab)>>))

VisitIf(args, st, hint) ==
    LET g1 == Gensym(st)
        g2 == Gensym(g1.st)
        lab == g1.lab
        labEnd == g2.lab
    IN IF ~IfArity(args) THEN Err(g2.st, "ArityError")
       ELSE LET c == Visit(args[1], g2.st, FALSE, "boolean")
                gs == GetSlot(c.st, Nil)
                ret == SlotV(gs.slot)
                s1 == Push(gs.st, Ins("bind", <<ret, SymV(hint)>>))
                s2 == Push(s1, Ins("branch", <<c.res, LabV(lab)>>))
                t == Visit(args[2], s2, FALSE, hint)
                s5 == IfElse(t.st, ret, t.res, lab, labEnd)
                f == Visit(args[3], s5, FALSE, hint)
                s6 == Push(f.st, Ins("move", <<ret, f.res>>))
                s7 == Push(s6, Ins("label", <<LabV(labEnd)>>))
            IN IF c.err # "" THEN c
               ELSE IF t.err # "" THEN t
               ELSE IF f.err # "" THEN f
               ELSE Ok(s7, ret)

VisitIr(args, st) == Ok(PushAll(st, args, 1), NilV)

\* syscall and the default (call) branch
VisitCall(op, args, st, noReturn) ==
    LET gs == IF noReturn THEN [st |-> st, slot |-> 0] ELSE GetSlot(st, Nil)
        ret == IF noReturn THEN NilV ELSE SlotV(gs.slot)
        a == VisitArgs(args, 1, gs.st, <<>>)
        ins == IF op = "syscall"
               THEN Ins("syscall", <<KwV("default"), ret>> \o a.slots)
               ELSE Ins("call", <<KwV("default"), ret, PtrV(op)>> \o a.slots)
    IN IF a.err # "" THEN Err(a.st, a.err)
       ELSE Ok(Push(a.st, ins), ret)

Visit(code, st, noReturn, hint) ==
    CASE code.tag \in {"string", "boolean", "number", "u64", "s64"} ->
           Ok(st, Literal(code, hint))
      [] code.tag = "symbol" ->
           LET r == NamedSlot(st.n2s, code)
           IN IF r.err # "" THEN Err(st, r.err) ELSE Ok(st, r.res)
      [] code.tag = "tuple" ->
           IF code.name = Nil THEN Err(st, "ArityError")
           ELSE LET op == code.name
                    args == code.args
                IN CASE op \in ArithOps -> DoBinop(Opcode(op), args, st, hint)
                     [] op \in CompOps -> DoComp(Opcode(op), args, st)
                     [] op = "the" -> VisitThe(args, st)
                     [] op \in {"def", "var"} -> VisitDef(args, st)
                     [] op = "set" -> VisitSet(args, st)
                     [] op = "return" -> VisitReturn(args, st)
                     [] op = "do" -> VisitDo(args, st, hint)
                     [] op = "while" -> VisitWhile(args, st)
                     [] op = "if" -> VisitIf(args, st, hint)
                     [] op = "ir" -> VisitIr(args, st)
                     [] OTHER -> VisitCall(op, args, st, noReturn)
      [] OTHER -> Err(st, "UnsupportedForm")


\* ------------------------------------------------------------------ inputs
SeqsUpTo(S, n) == UNION {[1..k -> S] : k \in 0..n}

ParamSyms == {Sym("a"), SymT("b", "long")}
ParamLists == SeqsUpTo(ParamSyms, MaxParams)
FnNames == {Sym("f"), SymT("g", "long")}

CallF == App("f", <<>>)
CallG == App("g", <<>>)
ArithOpnds == {Num("5"), Sym("a")}
CompOpnds == {Sym("a"), CallF}
Leaves == {Num("5"), Str("x"), Bool("true"), Sym("a"), CallF}
IfABB == App("if", <<Sym("a"), Num("5"), Sym("a")>>)
LtA5 == App("<", <<Sym("a"), Num("5")>>)

AtomForms ==
    {Num("5"), Str("x"), Bool("true"), U64("5"), S64("5"), Sym("a"), Sym("b"),
     SymT("a", "int"), NilForm, EmptyTuple, Atom("bracket", Nil)}

ArithForms ==
    {App("+", args) : args \in SeqsUpTo(ArithOpnds, MaxArgs)}
    \cup {App(op, <<Sym("a"), Num("5")>>) : op \in ArithOps}
    \cup {App("*", <<Num("5"), CallF, CallG>>),
          App("+", <<App("+", <<Sym("a"), Num("5")>>), Sym("a")>>)}

CompForms ==
    {App("<", args) : args \in SeqsUpTo(CompOpnds, MaxArgs)}
    \cup {App(op, <<Sym("a"), Num("5")>>) : op \in CompOps}
    \cup {App("=", <<Sym("a"), Num("5"), Sym("b")>>),
          App("<", <<CallF, CallG, Sym("a")>>), App("=", <<CallG, CallF>>),
          App("=", <<Sym("a"), LtA5, Sym("a")>>)}

TheForms ==
    {App("the", <<Sym(t), x>>) : t \in {"int", "pointer"}, x \in Leaves}
    \cup {App("the", <<Sym("int")>>),
          App("the", <<Sym("boolean"), Bool("true")>>),
          App("the", <<Sym("long"), U64("5")>>),
          App("the", <<Sym("int"), App("+", <<Num("5")>>)>>),
          App("the", <<Sym("int"), IfABB>>)}

DefForms ==
    {App("def", <<n, v>>) : n \in {Sym("a"), SymT("b", "long")},
                            v \in {Num("5"), Sym("a"), Str("x")}}
    \cup {App("var", <<n, Num("5")>>) : n \in {Sym("a"), SymT("b", "long")}}
    \cup {App("def", <<Sym("a")>>), App("def", <<Num("5"), Num("5")>>),
          App("def", <<Sym("a"), IfABB>>),
          App("def", <<SymT("b", "boolean"), LtA5>>)}

SetForms ==
    {App("set", <<n, x>>) : n \in {Sym("a"), Sym("b")},
                            x \in {Num("5"), Sym("a"), CallF}}
    \cup {App("set", <<Sym("a")>>),
          App("set", <<Sym("a"), App("+", <<Num("5"), Sym("a")>>)>>),
          App("set", <<Sym("a"), IfABB>>)}

ReturnForms ==
    {App("return", <<>>), App("return", <<Num("5")>>), App("return", <<Sym("a")>>),
     App("return", <<Num("5"), Num("5")>>),
     App("return", <<App("*", <<Num("5"), Sym("a"), Sym("a")>>)>>)}

DoParts == {CallF, App("def", <<Sym("a"), Num("5")>>)}
DoForms ==
    {App("do", args) : args \in SeqsUpTo(DoParts, 2)}
    \cup {App("do", <<Num("5")>>), App("do", <<Sym("a"), Num("5")>>),
          App("do", <<App("return", <<Num("5")>>)>>),
          App("do", <<App("syscall", <<Num("5")>>)>>),
          App("do", <<App("if", <<Sym("a")>>)>>)}

WhileForms ==
    {App("while", <<>>), App("while", <<Sym("a")>>)}
    \cup {App("while", <<c, b>>) : c \in {Sym("a"), LtA5},
                                    b \in {CallF, IfABB,
                                           App("set", <<Sym("a"), Num("5")>>),
                                           App("while", <<Sym("a"), CallF>>)}}
    \cup {App("while", <<Sym("a"), CallF, CallG>>),
          App("while", <<Sym("a"), App("return", <<Num("5")>>)>>),
          App("while", <<Sym("a"), App("do", <<>>)>>)}

IfForms ==
    {App("if", <<c, t, f>>) : c \in {Sym("a"), Bool("true")},
                              t \in {Num("5"), CallF},
                              f \in {Num("5"), Sym("b")}}
    \cup {App("if", args) : args \in {<<>>, <<Sym("a")>>, <<Sym("a"), Num("5")>>,
                                      <<Sym("a"), Num("5"), Num("5"), Num("5")>>}}
    \cup {App("if", <<LtA5, IfABB, Num("5")>>),
          App("if", <<Sym("a"), App("while", <<Sym("a"), CallF>>), Num("5")>>),
          App("if", <<Sym("a"), App("return", <<Num("5")>>), Num("5")>>)}

IrForms == {App("ir", <<>>), App("ir", <<App("nop", <<>>), App("return", <<>>)>>)}

CallForms ==
    {App("f", args) : args \in SeqsUpTo({Num("5"), Sym("a")}, 2)}
    \cup {App("syscall", <<>>), App("syscall", <<Num("5"), Sym("a")>>),
          App("f", <<IfABB>>), App("f", <<App("the", <<Sym("int"), IfABB>>)>>)}

Forms ==
    AtomForms \cup ArithForms \cup CompForms \cup TheForms \cup DefForms
    \cup SetForms \cup ReturnForms \cup DoForms \cup WhileForms \cup IfForms
    \cup IrForms \cup CallForms

\* ------------------------------------------------------------------- state
VARIABLES
    slot_to_name,   \* array slot-to-name
    name_to_slot,   \* table name-to-slot
    ir_asm,         \* the array ir-asm of the running (or last) call of top
    gensym_ctr,     \* counter behind (gensym)
    ret_type,       \* dynamic binding *ret-type*
    pc,             \* where top is: "idle", "body", "handed", "failed"
    err,            \* tag of the error that aborted top, "" if none
    asm_calls,      \* number of calls of sysir/asm made by top
    fn_count,       \* number of defn forms top has started on
    allocs,         \* history: indices get-slot returned since the last reset
    fn,             \* history: the defn being compiled, and what top found on entry
    cur,            \* history: the body form compiled last
    fw_stream,      \* filewatch: watcher->stream, "none" before filewatch/make
    fw_wds,         \* filewatch: watcher->watch_descriptors, path -> wd
    fw_listening,   \* filewatch: the read callback is registered on the stream
    fw_kernel,      \* filewatch: wds the inotify instance watches
    fw_queue,       \* filewatch: events queued on the inotify descriptor
    fw_chan,        \* filewatch: values given to watcher->channel
    fw_read,        \* history: number of events read from the stream
    fw_total        \* history: number of events the kernel has queued

fevars == <<slot_to_name, name_to_slot, ir_asm, gensym_ctr, ret_type, pc, err,
            asm_calls, fn_count, allocs, fn, cur>>
fwvars == <<fw_stream, fw_wds, fw_listening, fw_kernel, fw_queue, fw_chan,
            fw_read, fw_total>>
vars == <<fevars, fwvars>>

St == [into |-> ir_asm, s2n |-> slot_to_name, n2s |-> name_to_slot,
       gen |-> gensym_ctr, allocs |-> allocs, rt |-> ret_type]

NoFn == [name |-> Nil, tp |-> Nil, params |-> <<>>, gen0 |-> 0, calls0 |-> 0,
         stale |-> FALSE, rt0 |-> Nil]
NoCur == [form |-> NilForm, from |-> 0, slots0 |-> 0, gen0 |-> 0, res |-> NilV, live |-> FALSE]

Init ==
    /\ slot_to_name = <<>>
    /\ name_to_slot = EmptyTable
    /\ ir_asm = <<>>
    /\ gensym_ctr = 0
    /\ ret_type = Nil
    /\ pc = "idle"
    /\ err = ""
    /\ asm_calls = 0
    /\ fn_count = 0
    /\ allocs = <<>>
    /\ fn = NoFn
    /\ cur = NoCur
    /\ fw_stream = "none"
    /\ fw_wds = EmptyTable
    /\ fw_listening = FALSE
    /\ fw_kernel = {}
    /\ fw_queue = <<>>
    /\ fw_chan = <<>>
    /\ fw_read = 0
    /\ fw_total = 0

Install(st) ==
    /\ slot_to_name' = st.s2n
    /\ name_to_slot' = st.n2s
    /\ ir_asm' = st.into
    /\ gensym_ctr' = st.gen
    /\ allocs' = st.allocs

\* faulty variant of the header: parameter-count is one too many
TopHeaderCountsFromOne(fnName, pcount) ==
    <<Ins("link-name", <<StrV(fnName)>>), Ins("parameter-count", <<NumV(pcount + 1)>>)>>

\* the two directives ir-asm starts with
TopHeader(fnName, pcount) ==
    <<Ins("link-name", <<StrV(fnName)>>), Ins("parameter-count", <<NumV(pcount)>>)>>

RECURSIVE BindParams(_, _, _)
BindParams(st, args, k) ==
    IF k > Len(args) THEN st
    ELSE LET te == TypeExtract(args[k], "int")
             gs == GetSlot(st, te.name)
         IN BindParams(Push(gs.st, Ins("bind", <<SlotV(gs.slot), SymV(te.tp)>>)),
                       args, k + 1)

\* *ret-type* as seen once with-dyns has returned or raised: the binding it
\* made lives in the environment of the body's fiber, the one outside is as
\* it was on entry
DynAfter(outer, inner) == outer

\* top, from the defn branch up to the start of the body loop
TopDefn(name, args) ==
    /\ pc # "body"
    /\ fn_count < MaxFns
    /\ LET te == TypeExtract(name, "int")
           s0 == ClearRegistry(St)
           s1 == [s0 EXCEPT !.into = TopHeader(te.name, Len(args))]
       IN /\ Install(BindParams(s1, args, 1))
          /\ ret_type' = te.tp
          /\ fn' = [name |-> te.name, tp |-> te.tp, params |-> args,
                    gen0 |-> gensym_ctr, calls0 |-> asm_calls,
                    stale |-> "a" \in DOMAIN name_to_slot, rt0 |-> ret_type]
    /\ pc' = "body"
    /\ err' = ""
    /\ fn_count' = fn_count + 1
    /\ cur' = NoCur
    /\ UNCHANGED <<asm_calls, fwvars>>

\* faulty variant: sysir/asm is called even when the body raised
AsmAfterAlways(calls, failed) == calls + 1

\* sysir/asm is reached only when the body loop ran to its end
AsmAfter(calls, failed) == IF failed THEN calls ELSE calls + 1

\* one iteration of the body loop: (visit1 part ir-asm true).  Bodies of one
\* form are explored; a sequence of forms is written with `do`.
VisitPart(form) ==
    /\ pc = "body"
    /\ ~cur.live
    /\ LET r == Visit(form, St, TRUE, Nil)
       IN /\ Install(r.st)
          /\ cur' = [form |-> form, from |-> Len(ir_asm), slots0 |-> Len(slot_to_name),
                     gen0 |-> gensym_ctr, res |-> r.res, live |-> TRUE]
          /\ err' = r.err
          /\ IF r.err # ""
             THEN /\ pc' = "failed"
                  /\ ret_type' = DynAfter(fn.rt0, ret_type)
                  /\ asm_calls' = AsmAfter(asm_calls, TRUE)
             ELSE /\ pc' = "body"
                  /\ UNCHANGED <<ret_type, asm_calls>>
    /\ UNCHANGED <<fn_count, fn, fwvars>>

\* end of the body: leave with-dyns, (sysir/asm ctx ir-asm)
TopAsm ==
    /\ pc = "body"
    /\ pc' = "handed"
    /\ ret_type' = DynAfter(fn.rt0, ret_type)
    /\ asm_calls' = AsmAfter(asm_calls, FALSE)
    /\ UNCHANGED <<slot_to_name, name_to_slot, ir_asm, gensym_ctr, err, fn_count,
                   allocs, fn, cur, fwvars>>

\* A top-level form whose head is not defn only raises "unknown form": it
\* touches no state of the frontend and is not an action here.
Next ==
    \/ \E name \in FnNames, args \in ParamLists : TopDefn(name, args)
    \/ \E form \in Forms : VisitPart(form)
    \/ TopAsm

Spec == Init /\ [][Next]_vars

\* --------------------------------------------------------------- filewatch
\* The Linux (inotify) implementation of core/filewatch.c.
Paths == {"p", "q"}
Masks == {"modify", "create"}
\* inotify_add_watch: one watch descriptor per path, the same one when the
\* path is added again
WdOf(path) == IF path = "p" THEN 1 ELSE 2

\* struct inotify_event; name is Nil when len = 0
InEvent(wd, mask, name) == [wd |-> wd, mask |-> mask, name |-> name]
InEvents == {InEvent(WdOf(p), m, n) : p \in Paths, m \in Masks, n \in {Nil, "x"}}

\* janet_watch_filter always returns 0
JanetWatchFilter(name, wd) == 0

\* janet_table_get(&watcher->watch_descriptors, wd)
WdPath(wds, wd) ==
    IF \E p \in DOMAIN wds : wds[p] = wd
    THEN CHOOSE p \in DOMAIN wds : wds[p] = wd ELSE Nil

\* the struct the read callback builds for one event
EventValue(wds, ev, name) ==
    [wd |-> ev.wd, wdpath |-> WdPath(wds, ev.wd), mask |-> ev.mask, path |-> name]

RECURSIVE ReadEvents(_, _, _, _, _)
\* the while loop over the events of the buffer, repeated by `goto
\* read_more` until read() reports EAGAIN: every queued event is read; one the
\* filter test sends to `continue` is not given.  `name` is declared outside
\* the loop and only assigned for events that carry a name.
ReadEvents(wds, events, k, name, chan) ==
    IF k > Len(events) THEN chan
    ELSE LET ev == events[k]
             nm == IF ev.name # Nil THEN ev.name ELSE name
         IN IF JanetWatchFilter(nm, ev.wd) = 0
            THEN ReadEvents(wds, events, k + 1, nm, chan)
            ELSE ReadEvents(wds, events, k + 1, nm, Append(chan, EventValue(wds, ev, nm)))

\* cfun_filewatch_make / janet_watcher_init
FwMake ==
    /\ fw_stream = "none"
    /\ fw_stream' = "open"
    /\ fw_wds' = EmptyTable
    /\ UNCHANGED <<fw_listening, fw_kernel, fw_queue, fw_chan, fw_read, fw_total, fevars>>

\* cfun_filewatch_add / janet_watcher_add
FwAdd(path) ==
    /\ fw_stream = "open"
    /\ fw_kernel' = fw_kernel \cup {WdOf(path)}
    /\ fw_wds' = Put(fw_wds, path, WdOf(path))
    /\ UNCHANGED <<fw_stream, fw_listening, fw_queue, fw_chan, fw_read, fw_total, fevars>>

\* cfun_filewatch_remove / janet_watcher_remove: the watch is removed from
\* the inotify instance (which queues IN_IGNORED); the table keeps its entry
FwRemove(path) ==
    /\ fw_stream = "open"
    /\ path \in DOMAIN fw_wds
    /\ fw_wds[path] \in fw_kernel
    /\ fw_total < MaxEvents
    /\ fw_kernel' = fw_kernel \ {fw_wds[path]}
    /\ fw_queue' = Append(fw_queue, InEvent(fw_wds[path], "ignored", Nil))
    /\ fw_total' = fw_total + 1
    /\ UNCHANGED <<fw_stream, fw_wds, fw_listening, fw_chan, fw_read, fevars>>

\* watcher_callback_read on JANET_ASYNC_EVENT_INIT / READ / HUP
CallbackRead ==
    /\ fw_chan' = ReadEvents(fw_wds, fw_queue, 1, Nil, fw_chan)
    /\ fw_read' = fw_read + Len(fw_queue)
    /\ fw_queue' = <<>>

\* cfun_filewatch_listen / janet_watcher_listen: janet_async_start runs the
\* callback once with JANET_ASYNC_EVENT_INIT
FwListen ==
    /\ fw_stream = "open"
    /\ ~fw_listening
    /\ fw_listening' = TRUE
    /\ CallbackRead
    /\ UNCHANGED <<fw_stream, fw_wds, fw_kernel, fw_total, fevars>>

\* the event loop finds the stream readable and runs the callback
FwCallbackRead ==
    /\ fw_listening
    /\ fw_queue # <<>>
    /\ CallbackRead
    /\ UNCHANGED <<fw_stream, fw_wds, fw_listening, fw_kernel, fw_total, fevars>>

\* the kernel queues an event for a watched descriptor
FwKernelEvent(ev) ==
    /\ ev.wd \in fw_kernel
    /\ fw_total < MaxEvents
    /\ fw_queue' = Append(fw_queue, ev)
    /\ fw_total' = fw_total + 1
    /\ UNCHANGED <<fw_stream, fw_wds, fw_listening, fw_kernel, fw_chan, fw_read, fevars>>

FwNext ==
    \/ FwMake
    \/ \E path \in Paths : FwAdd(path)
    \/ \E path \in Paths : FwRemove(path)
    \/ FwListen
    \/ FwCallbackRead
    \/ \E ev \in InEvents : FwKernelEvent(ev)

\* the event loop runs a registered callback whenever its stream is readable
FwSpec == Init /\ [][FwNext]_vars /\ WF_vars(FwCallbackRead)

TypeOK ==
    /\ pc \in {"idle", "body", "handed", "failed"}
    /\ Len(slot_to_name) = Len(allocs)

\* --------------------------------------------------------------- properties
Seg == SubSeq(ir_asm, cur.from + 1, Len(ir_asm))
SlotNames == {slot_to_name[j] : j \in 1..Len(slot_to_name)}
Count(s, op) == Len(SelectSeq(s, LAMBDA x : x.op = op))
InBody == pc \in {"body", "handed", "failed"}

\* C1: the k-th slot allocated since the last registry reset has index k-1, so
\* indices are distinct and increasing, none is handed out twice, and the first
\* allocation after a reset returns 0.
C1_SlotIndicesDense ==
    /\ Len(allocs) = Len(slot_to_name)
    /\ \A k \in 1..Len(allocs) : allocs[k] = k - 1
    /\ \A n \in DOMAIN name_to_slot : name_to_slot[n] \in 0..(Len(slot_to_name) - 1)

C1_Witness ==
    /\ fn_count = 2
    /\ fn.calls0 = 1
    /\ fn.stale
    /\ Len(allocs) >= 3
    /\ \E k \in 1..Len(allocs) : slot_to_name[k] = Nil

\* C2 as stated: name-to-slot[n] = i exactly when slot-to-name[i] = n.
C2_Original ==
    \A n \in (DOMAIN name_to_slot) \cup (SlotNames \ {Nil}) :
        \A i \in 0..(Len(slot_to_name) - 1) :
            (n \in DOMAIN name_to_slot /\ name_to_slot[n] = i) <=> (slot_to_name[i + 1] = n)

\* C2 amended: name-to-slot[n] = i exactly when i is the last index whose
\* slot-to-name entry is n; anonymous slots have an absent name and no
\* name-to-slot entry.
C2_LatestBinding ==
    /\ Nil \notin DOMAIN name_to_slot
    /\ \A n \in DOMAIN name_to_slot : name_to_slot[n] \in 0..(Len(slot_to_name) - 1)
    /\ \A n \in (DOMAIN name_to_slot) \cup (SlotNames \ {Nil}) :
          \A i \in 0..(Len(slot_to_name) - 1) :
              (n \in DOMAIN name_to_slot /\ name_to_slot[n] = i)
              <=> (/\ slot_to_name[i + 1] = n
                   /\ \A j \in (i + 2)..Len(slot_to_name) : slot_to_name[j] # n)

C2_Witness ==
    /\ \E i, j \in 1..Len(slot_to_name) :
          i < j /\ slot_to_name[i] # Nil /\ slot_to_name[i] = slot_to_name[j]
    /\ \E i \in 1..Len(slot_to_name) : slot_to_name[i] = Nil
    /\ pc = "body"

Compiled == cur.live /\ err = ""
Args == cur.form.args
IsCall0(x) == x.tag = "tuple" /\ x.name \in {"f", "g"} /\ x.args = <<>>
IsLiteral(x) == x.tag \in {"string", "boolean", "number", "u64", "s64"}
SimpleOpnd(x) == x.tag = "symbol" \/ IsLiteral(x) \/ IsCall0(x)
IsSlot(v) == v.k = "slot" /\ v.i \in 0..(Len(slot_to_name) - 1)
Fresh(v) == v.k = "slot" /\ v.i \in cur.slots0..(Len(slot_to_name) - 1)
CallIns == SelectSeq(Seg, LAMBDA x : x.op = "call")
CallsUpTo(i) == Cardinality({j \in 1..i : IsCall0(Args[j])})

\* what the i-th (simple) operand of the form compiled last evaluates to
OpndVal(i, hint) ==
    IF IsCall0(Args[i]) THEN CallIns[CallsUpTo(i)].args[2]
    ELSE IF Args[i].tag = "symbol" THEN SlotV(name_to_slot[Args[i].name])
    ELSE Literal(Args[i], hint)

\* every call operand was compiled once, in operand order
CallsInOrder ==
    /\ Len(CallIns) = CallsUpTo(Len(Args))
    /\ \A i \in 1..Len(Args) :
          IsCall0(Args[i]) => CallIns[CallsUpTo(i)].args[3] = PtrV(Args[i].name)

ChainedComp(k) ==
    /\ Compiled
    /\ cur.form.tag = "tuple"
    /\ cur.form.name \in CompOps
    /\ Len(Args) = k
    /\ \A i \in 1..k : SimpleOpnd(Args[i])

CmpIns == SelectSeq(Seg, LAMBDA x : x.op = Opcode(cur.form.name))

\* C3 as stated: with more than 2 operands a temporary boolean slot distinct
\* from the result slot is allocated and bound, the first comparison writes the
\* result slot, each later one writes the temporary and is followed by an `and`
\* into the result, and every destination is an allocated slot.
C3_Original ==
    \A k \in 3..(MaxArgs + 1) :
        ChainedComp(k) =>
            /\ \E t \in cur.slots0..(Len(slot_to_name) - 1) :
                  /\ SlotV(t) # cur.res
                  /\ slot_to_name[t + 1] = Nil
                  /\ \E p \in 1..Len(Seg) : Seg[p] = Ins("bind", <<SlotV(t), SymV("boolean")>>)
                  /\ CmpIns[1].args[1] = cur.res
                  /\ \A j \in 2..Len(CmpIns) : CmpIns[j].args[1] = SlotV(t)
                  /\ \A p \in 1..Len(Seg) :
                        (Seg[p].op = Opcode(cur.form.name) /\ Seg[p].args[1] # cur.res)
                        => /\ p < Len(Seg)
                           /\ Seg[p + 1].op = "and"
                           /\ Seg[p + 1].args[1] = cur.res
                           /\ SlotV(t) \in {Seg[p + 1].args[2], Seg[p + 1].args[3]}
            /\ \A p \in 1..Len(Seg) :
                  Seg[p].op \in {Opcode(cur.form.name), "and"} => IsSlot(Seg[p].args[1])

\* C4: a chained comparison of exactly 2 operands allocates no temporary and
\* emits no `and`, its one comparison writing the result slot; k > 2 operands
\* give k-1 comparisons and k-2 `and`s; each operand is compiled once, left to
\* right (the i-th comparison compares operand i with operand i+1).
C4_CompCounts ==
    \A k \in 2..(MaxArgs + 1) :
        ChainedComp(k) =>
            /\ Len(CmpIns) = k - 1
            /\ Count(Seg, "and") = k - 2
            /\ CallsInOrder
            /\ \A i \in 1..(k - 1) :
                  /\ CmpIns[i].args[2] = OpndVal(i, Nil)
                  /\ CmpIns[i].args[3] = OpndVal(i + 1, Nil)
            /\ CmpIns[1].args[1] = cur.res
            /\ IsSlot(cur.res)
            /\ k = 2 => /\ Len(slot_to_name) - cur.slots0 = 1 + Len(CallIns)
                        /\ Count(Seg, "bind") = 1
                        /\ Len(Seg) = 2 + Len(CallIns)

C4_Witness == ChainedComp(3) /\ Len(CallIns) = 2 /\ pc = "body"

ArithFold(n) ==
    /\ Compiled
    /\ cur.form.tag = "tuple"
    /\ cur.form.name \in ArithOps
    /\ Len(Args) = n
    /\ \A i \in 1..n : SimpleOpnd(Args[i])

BinIns == SelectSeq(Seg, LAMBDA x : x.op = Opcode(cur.form.name))

FoldShape(n) ==
    /\ Len(BinIns) = n - 1
    /\ \A j \in 1..(n - 1) : Len(BinIns[j].args) = 3 /\ Fresh(BinIns[j].args[1])
    /\ \A i, j \in 1..(n - 1) : i # j => BinIns[i].args[1] # BinIns[j].args[1]
    /\ cur.res = BinIns[n - 1].args[1]

\* C5 as stated: n >= 2 arguments give n-1 binary instructions with fresh
\* destinations, the right operand of step k+1 being the destination of step k.
C5_Original ==
    \A n \in 2..(MaxArgs + 1) :
        ArithFold(n) =>
            /\ FoldShape(n)
            /\ \A j \in 1..(n - 2) : BinIns[j + 1].args[3] = BinIns[j].args[1]

\* C5 amended: n >= 2 arguments give n-1 binary instructions op(dest, lhs, rhs)
\* with fresh destinations; the LEFT operand of step k+1 is the destination of
\* step k (step 1 takes the first argument), the right operand of step k is
\* argument k+1, and the form returns the last destination.
C5_LeftFold ==
    \A n \in 2..(MaxArgs + 1) :
        ArithFold(n) =>
            /\ FoldShape(n)
            /\ CallsInOrder
            /\ BinIns[1].args[2] = OpndVal(1, Nil)
            /\ \A j \in 1..(n - 2) : BinIns[j + 1].args[2] = BinIns[j].args[1]
            /\ \A j \in 1..(n - 1) : BinIns[j].args[3] = OpndVal(j + 1, Nil)

C5_Witness == ArithFold(3) /\ Len(CallIns) = 2 /\ pc = "body"

RECURSIVE Occ(_)
RECURSIVE OccSeq(_, _)
\* number of if / while occurrences visit1 meets in a form (the operands of
\* `ir` are pushed verbatim and never visited)
Occ(form) ==
    IF form.tag # "tuple" \/ form.name = "ir" THEN 0
    ELSE (IF form.name \in {"if", "while"} THEN 1 ELSE 0) + OccSeq(form.args, 1)
OccSeq(forms, k) == IF k > Len(forms) THEN 0 ELSE Occ(forms[k]) + OccSeq(forms, k + 1)

FnLabels == (fn.gen0 + 1)..gensym_ctr
Markers(l) == Cardinality({p \in 1..Len(ir_asm) : ir_asm[p] = Ins("label", <<LabV(l)>>)})
Targets(l) ==
    Cardinality({p \in 1..Len(ir_asm) :
                    /\ ir_asm[p].op \in {"branch", "branch-not", "jump"}
                    /\ ir_asm[p].args[Len(ir_asm[p].args)] = LabV(l)})

\* C6: each if / while occurrence generates exactly two labels, no label of
\* this function's list was generated before the function started, and in a
\* list lowered without error every generated label is a label marker exactly
\* once and the target of a branch, branch-not or jump at least once.
C6_Labels ==
    /\ Compiled => gensym_ctr - cur.gen0 = 2 * Occ(cur.form)
    /\ (cur.live /\ err = "ArityError" /\ cur.form.name \in {"if", "while"})
          => gensym_ctr - cur.gen0 = 2
    /\ InBody =>
          \A p \in 1..Len(ir_asm) : \A q \in 1..Len(ir_asm[p].args) :
              ir_asm[p].args[q].k = "label" => ir_asm[p].args[q].i \in FnLabels
    /\ pc \in {"body", "handed"} =>
          \A l \in FnLabels : Markers(l) = 1 /\ Targets(l) >= 1

C6_Witness ==
    /\ pc = "handed"
    /\ fn.gen0 >= 2
    /\ gensym_ctr - fn.gen0 >= 4
    /\ cur.form.name = "while"

ParamType(sym) == IF sym.tp = Nil THEN "int" ELSE sym.tp

\* C7: the list top builds for a defn with N parameters starts with link-name
\* (the bare function name) and parameter-count N, then exactly N binds, the
\* i-th binding slot i-1 to the i-th parameter's type (int when untyped); the
\* body's instructions come after them.  It is this list that is handed over.
C7_Header ==
    InBody =>
        LET n == Len(fn.params)
        IN /\ Len(ir_asm) >= 2 + n
           /\ ir_asm[1] = Ins("link-name", <<StrV(fn.name)>>)
           /\ ir_asm[2] = Ins("parameter-count", <<NumV(n)>>)
           /\ \A i \in 1..n :
                 ir_asm[2 + i] = Ins("bind", <<SlotV(i - 1), SymV(ParamType(fn.params[i]))>>)
           /\ cur.live => cur.from = 2 + n
           /\ ~cur.live => Len(ir_asm) = 2 + n

C7_Witness ==
    /\ pc = "handed"
    /\ Len(fn.params) = 2
    /\ fn.params[1].tp = Nil
    /\ fn.params[2].tp # Nil
    /\ Len(ir_asm) > 4

\* C8: sysir/asm is called once for a defn whose body lowers without error
\* and not at all for one that raises; the next defn starts from a registry
\* holding only its own parameters.
C8_AsmOnce ==
    /\ pc = "handed" => asm_calls = fn.calls0 + 1 /\ err = ""
    /\ pc = "failed" => asm_calls = fn.calls0 /\ err # ""
    /\ pc = "body" => asm_calls = fn.calls0 /\ err = ""
    /\ (pc = "body" /\ ~cur.live) =>
          /\ slot_to_name = [i \in 1..Len(fn.params) |-> fn.params[i].name]
          /\ DOMAIN name_to_slot = {fn.params[i].name : i \in 1..Len(fn.params)}
    /\ asm_calls <= fn_count

C8_Witness ==
    /\ pc = "handed"
    /\ fn_count = 2
    /\ fn.calls0 = 0
    /\ fn.stale
    /\ fn.params = <<>>
    /\ asm_calls = 1

RefOrSet ==
    /\ cur.live
    /\ \/ cur.form.tag = "symbol"
       \/ cur.form.tag = "tuple" /\ cur.form.name = "set" /\ Len(Args) = 2
Target == IF cur.form.tag = "symbol" THEN cur.form ELSE Args[1]

\* C9: a reference to, or a `set` of, a name that is not bound in the function
\* being compiled fails with UnboundName; neither binds the name nor allocates
\* a slot for it; names of earlier functions are not bound; a name bound at
\* slot 0 resolves to 0.
C9_Unbound ==
    RefOrSet =>
        /\ Lookup(name_to_slot, Target).k = "nil" =>
              /\ pc = "failed"
              /\ err = "UnboundName"
              /\ Target.tp = Nil => Target.name \notin SlotNames
        /\ DOMAIN name_to_slot = {fn.params[i].name : i \in 1..Len(fn.params)}
        /\ \A j \in (cur.slots0 + 1)..Len(slot_to_name) : slot_to_name[j] = Nil
        /\ cur.form.tag = "symbol" =>
              /\ Len(slot_to_name) = cur.slots0
              /\ Len(Seg) = 0
              /\ Lookup(name_to_slot, Target).k = "slot" =>
                    /\ pc # "failed"
                    /\ err = ""
                    /\ cur.res = SlotV(name_to_slot[Target.name])

C9_Witness ==
    /\ fn_count = 2
    /\ fn.stale
    /\ cur.live
    /\ cur.form = Sym("a")
    /\ err = "UnboundName"
    /\ pc = "failed"

TheForm == cur.live /\ cur.form.tag = "tuple" /\ cur.form.name = "the" /\ Len(Args) = 2
Carried(x, t) ==
    IF x.tag = "string" THEN "pointer" ELSE IF x.tag = "boolean" THEN "boolean" ELSE t

\* C10: (the T x) with x a literal appends nothing: it yields the constant
\* tagged T when the literal's type (T itself for a number, pointer for a
\* string, boolean for a boolean) equals T and fails with TypeMismatch
\* otherwise; with x compiled to a slot it appends one bind(slot, T) after x's
\* own instructions and returns that slot.
C10_The ==
    TheForm =>
        LET t == Args[1].name
            x == Args[2]
        IN /\ IsLiteral(x) =>
                 /\ Len(Seg) = 0
                 /\ IF Carried(x, t) = t
                    THEN err = "" /\ cur.res = ConstV(t, x.name)
                    ELSE err = "TypeMismatch" /\ pc = "failed"
           /\ (x.tag = "symbol" /\ err = "") =>
                 /\ cur.res = SlotV(name_to_slot[x.name])
                 /\ Seg = <<Ins("bind", <<cur.res, SymV(t)>>)>>
           /\ IsCall0(x) =>
                 /\ err = ""
                 /\ Len(Seg) = 2
                 /\ Seg[1].op = "call"
                 /\ Fresh(cur.res)
                 /\ cur.res = Seg[1].args[2]
                 /\ Seg[2] = Ins("bind", <<cur.res, SymV(t)>>)
           /\ (err = "" /\ cur.res.k = "slot") =>
                 Seg[Len(Seg)] = Ins("bind", <<cur.res, SymV(t)>>)
           /\ (err = "" /\ cur.res.k = "const") => cur.res.t = t

C10_Witness ==
    /\ cur.live
    /\ cur.form = App("the", <<Sym("int"), Num("5")>>)
    /\ cur.res = ConstV("int", "5")
    /\ pc = "body"

BadIf(x) == x.tag = "tuple" /\ x.name = "if" /\ Len(x.args) # 3
EmptyDo(x) == x.tag = "tuple" /\ x.name = "do" /\ Len(x.args) = 0
Malformed(x) == BadIf(x) \/ EmptyDo(x)
\* the form compiled last is a malformed if / do, or reaches one as the only
\* form of a `do` or as the body of a `while` whose condition is a bound name
ReachesMalformed ==
    /\ cur.live
    /\ \/ Malformed(cur.form)
       \/ /\ cur.form.tag = "tuple" /\ cur.form.name = "do" /\ Len(Args) = 1
          /\ Malformed(Args[1])
       \/ /\ cur.form.tag = "tuple" /\ cur.form.name = "while" /\ Len(Args) = 2
          /\ Lookup(name_to_slot, Args[1]).k = "slot"
          /\ Malformed(Args[2])

\* C11: an `if` whose argument count is not 3 and a `do` without forms fail
\* with an arity error (directly or nested), allocating no slot; the function
\* being compiled is aborted: its list is never handed to sysir/asm.  An `if`
\* of 3 arguments never fails on its arity.
C11_Arity ==
    /\ ReachesMalformed =>
          /\ err = "ArityError"
          /\ pc = "failed"
          /\ asm_calls = fn.calls0
          /\ Len(slot_to_name) = cur.slots0
          /\ Malformed(cur.form) => Len(Seg) = 0
    /\ (cur.live /\ cur.form.tag = "tuple" /\ cur.form.name = "if" /\ Len(Args) = 3)
          => err # "ArityError"

C11_Witness ==
    /\ cur.live
    /\ BadIf(cur.form)
    /\ Len(Args) = 4
    /\ err = "ArityError"
    /\ pc = "failed"
    /\ fn.calls0 = 1

RECURSIVE Returns(_)
RECURSIVE ReturnsSeq(_, _)
\* the arguments of the `return x` forms visit1 meets in a form, in the order
\* their return instructions are pushed
Returns(form) ==
    IF form.tag # "tuple" \/ form.name = "ir" THEN <<>>
    ELSE IF form.name = "return" /\ Len(form.args) = 1
         THEN Returns(form.args[1]) \o <<form.args[1]>>
         ELSE ReturnsSeq(form.args, 1)
ReturnsSeq(forms, k) ==
    IF k > Len(forms) THEN <<>> ELSE Returns(forms[k]) \o ReturnsSeq(forms, k + 1)

ReturnIns == SelectSeq(Seg, LAMBDA x : x.op = "return" /\ Len(x.args) = 1)

\* C12: inside the body of F every `return x`, at any depth, compiles x with
\* F's declared return type as hint (int when F's name has none): a literal
\* x is returned as a constant of that type and the first literal operand of
\* an arithmetic x is a constant of that type.  While the body is compiled
\* the context holds F's type; once F has finished, handed over or aborted,
\* it holds again what it held before F.
C12_RetType ==
    /\ pc = "body" =>
          /\ ret_type = fn.tp
          /\ \E n \in FnNames : n.name = fn.name /\ fn.tp = ParamType(n)
    /\ pc \in {"handed", "failed"} => ret_type = fn.rt0
    /\ pc = "idle" => ret_type = Nil
    /\ Compiled =>
          LET xs == Returns(cur.form)
          IN /\ Len(ReturnIns) = Len(xs)
             /\ \A k \in 1..Len(xs) :
                   /\ IsLiteral(xs[k]) => ReturnIns[k].args[1] = Literal(xs[k], fn.tp)
                   /\ (xs[k].tag = "tuple" /\ xs[k].name \in ArithOps /\ Len(xs[k].args) > 1
                          /\ IsLiteral(xs[k].args[1]))
                         => \E p \in 1..Len(Seg) :
                               /\ Seg[p].op = Opcode(xs[k].name)
                               /\ Seg[p].args[2] = Literal(xs[k].args[1], fn.tp)

C12_Witness ==
    /\ Compiled
    /\ fn_count = 2
    /\ fn.calls0 = 1
    /\ fn.tp = "int"
    /\ cur.form = App("while", <<Sym("a"), App("return", <<Num("5")>>)>>)
    /\ ReturnIns = <<Ins("return", <<ConstV("int", "5")>>)>>
    /\ pc = "handed"
    /\ ret_type = Nil

\* C13 as stated: once a path has been added and the watcher listens, every
\* event read from the stream is eventually given to the channel, one give
\* per event read.
C13_Original ==
    \A n \in 1..MaxEvents :
        (fw_listening /\ DOMAIN fw_wds # {} /\ fw_read >= n) ~> (Len(fw_chan) >= n)

\* instructions and value of a simple operand (bound name, literal, call
\* without arguments) compiled when `slot` is the next free slot
OpIns(x, slot) ==
    IF IsCall0(x) THEN <<Ins("call", <<KwV("default"), SlotV(slot), PtrV(x.name)>>)>>
    ELSE <<>>
OpVal(x, slot, hint) ==
    IF IsCall0(x) THEN SlotV(slot)
    ELSE IF x.tag = "symbol" THEN SlotV(name_to_slot[x.name])
    ELSE Literal(x, hint)
OpSlots(x) == IF IsCall0(x) THEN 1 ELSE 0

\* the stream C14 describes for (if c a b), slots counted from s0 and labels
\* from g0
IfStream(c, a, b, hint, s0, g0) ==
    LET ret == s0 + OpSlots(c)
        sa == ret + 1
        sb == sa + OpSlots(a)
        L == LabV(g0 + 1)
        E == LabV(g0 + 2)
    IN OpIns(c, s0)
       \o <<Ins("bind", <<SlotV(ret), SymV(hint)>>),
            Ins("branch", <<OpVal(c, s0, "boolean"), L>>)>>
       \o OpIns(a, sa)
       \o <<Ins("move", <<SlotV(ret), OpVal(a, sa, hint)>>), Ins("jump", <<E>>),
            Ins("label", <<L>>)>>
       \o OpIns(b, sb)
       \o <<Ins("move", <<SlotV(ret), OpVal(b, sb, hint)>>), Ins("label", <<E>>)>>

Pos(l) == CHOOSE p \in 1..Len(Seg) : Seg[p] = Ins("label", <<l>>)

RECURSIVE Path(_, _, _)
\* the instructions executed from position p up to the marker `stop`, the
\* branch being taken or not
Path(p, taken, stop) ==
    IF p > Len(Seg) \/ Seg[p] = Ins("label", <<stop>>) THEN <<>>
    ELSE <<Seg[p]>> \o
         (IF Seg[p].op = "jump" THEN Path(Pos(Seg[p].args[1]), taken, stop)
          ELSE IF Seg[p].op = "branch" /\ taken THEN Path(Pos(Seg[p].args[2]), taken, stop)
          ELSE Path(p + 1, taken, stop))

MovesInto(path, ret) == Len(SelectSeq(path, LAMBDA x : x.op = "move" /\ x.args[1] = ret))

SimpleIf(x) ==
    /\ x.tag = "tuple" /\ x.name = "if" /\ Len(x.args) = 3
    /\ \A i \in 1..3 : SimpleOpnd(x.args[i])

\* C14: (if c a b) appends c's instructions, bind(result, hint), branch(cond,
\* L), a's instructions, move(result, a), jump(E), label L, b's instructions,
\* move(result, b), label E, and returns the result slot; on the path where
\* the branch is not taken only a's move into the result executes before E,
\* on the path where it is taken only b's, and L is the marker right after
\* the jump.  Checked for an `if` at body level (no hint) and under `the`.
C14_IfOrder ==
    /\ (Compiled /\ SimpleIf(cur.form)) =>
          LET E == LabV(cur.gen0 + 2)
              ret == SlotV(cur.slots0 + OpSlots(Args[1]))
              fall == Path(1, FALSE, E)
              jumped == Path(1, TRUE, E)
          IN /\ Seg = IfStream(Args[1], Args[2], Args[3], Nil, cur.slots0, cur.gen0)
             /\ cur.res = ret
             /\ MovesInto(fall, ret) = 1
             /\ MovesInto(jumped, ret) = 1
             /\ fall[Len(fall) - 1].op = "move" /\ fall[Len(fall) - 1].args[2] = OpVal(Args[2], ret.i + 1, Nil)
             /\ jumped[Len(jumped)].op = "move"
             /\ jumped[Len(jumped)].args[2] = OpVal(Args[3], ret.i + 1 + OpSlots(Args[2]), Nil)
             /\ Seg[Pos(LabV(cur.gen0 + 1)) - 1] = Ins("jump", <<E>>)
    /\ (Compiled /\ cur.form.tag = "tuple" /\ cur.form.name = "the" /\ Len(Args) = 2
          /\ SimpleIf(Args[2])) =>
          LET x == Args[2]
              ret == SlotV(cur.slots0 + OpSlots(x.args[1]))
          IN /\ Seg = IfStream(x.args[1], x.args[2], x.args[3], Args[1].name,
                               cur.slots0, cur.gen0)
                      \o <<Ins("bind", <<ret, SymV(Args[1].name)>>)>>
             /\ cur.res = ret

C14_Witness ==
    /\ Compiled
    /\ cur.form = App("if", <<Sym("a"), CallF, Sym("b")>>)
    /\ Len(Seg) = 8
    /\ pc = "body"

\* a comparison of two operands that are bound names or literals
SimpleComp(x) ==
    /\ x.tag = "tuple" /\ x.name \in CompOps /\ Len(x.args) = 2
    /\ \A i \in 1..2 : x.args[i].tag = "symbol" \/ IsLiteral(x.args[i])
SimpleCond(x) == x.tag = "symbol" \/ SimpleComp(x)
\* instructions and value of a loop condition compiled at next free slot s0
CondIns(c, s0) ==
    IF c.tag = "symbol" THEN <<>>
    ELSE <<Ins("bind", <<SlotV(s0), SymV("boolean")>>),
           Ins(Opcode(c.name), <<SlotV(s0), OpVal(c.args[1], s0, Nil), OpVal(c.args[2], s0, Nil)>>)>>
CondVal(c, s0) == IF c.tag = "symbol" THEN SlotV(name_to_slot[c.name]) ELSE SlotV(s0)

\* a body form with its result discarded: a call without arguments, or a
\* `set` of a bound name to a literal
SimpleStmt(x) ==
    \/ IsCall0(x)
    \/ /\ x.tag = "tuple" /\ x.name = "set" /\ Len(x.args) = 2
       /\ x.args[1].tag = "symbol" /\ IsLiteral(x.args[2])
StmtIns(x) ==
    IF IsCall0(x) THEN <<Ins("call", <<KwV("default"), NilV, PtrV(x.name)>>)>>
    ELSE <<Ins("move", <<SlotV(name_to_slot[x.args[1].name]), Literal(x.args[2], Nil)>>)>>

RECURSIVE StmtsIns(_, _)
StmtsIns(xs, k) == IF k > Len(xs) THEN <<>> ELSE StmtIns(xs[k]) \o StmtsIns(xs, k + 1)

\* the stream C15 describes for (while c body...)
WhileStream(c, body, s0, g0) ==
    <<Ins("label", <<LabV(g0 + 1)>>)>>
    \o CondIns(c, s0)
    \o <<Ins("branch-not", <<CondVal(c, s0), LabV(g0 + 2)>>)>>
    \o StmtsIns(body, 1)
    \o <<Ins("jump", <<LabV(g0 + 1)>>), Ins("label", <<LabV(g0 + 2)>>)>>

RECURSIVE PathTo(_, _)
\* the instructions executed from position p up to position q, following
\* jumps and falling through everything else
PathTo(p, q) ==
    IF p = q \/ p > Len(Seg) THEN <<Seg[q]>>
    ELSE <<Seg[p]>> \o (IF Seg[p].op = "jump" THEN PathTo(Pos(Seg[p].args[1]), q)
                        ELSE PathTo(p + 1, q))

WhileAtBody ==
    /\ Compiled
    /\ cur.form.tag = "tuple" /\ cur.form.name = "while"

\* C15: (while c body...) appends label T, c's instructions, branch-not(cond,
\* X), the body forms' instructions in source order, jump(T), label X, and
\* yields no result.  T is the first instruction, before the condition, so
\* the back jump re-executes the condition and the branch-not; the branch-not
\* is the only instruction that targets X.
C15_WhileOrder ==
    /\ WhileAtBody =>
          LET T == LabV(cur.gen0 + 1)
              X == LabV(cur.gen0 + 2)
              tests == {p \in 1..Len(Seg) : Seg[p].op = "branch-not" /\ Seg[p].args[2] = X}
          IN /\ cur.res = NilV
             /\ Seg[1] = Ins("label", <<T>>)
             /\ Seg[Len(Seg) - 1] = Ins("jump", <<T>>)
             /\ Seg[Len(Seg)] = Ins("label", <<X>>)
             /\ Cardinality(tests) = 1
             /\ \A p \in 1..Len(Seg) : \A q \in 1..Len(Seg[p].args) :
                   (Seg[p].args[q] = X /\ Seg[p].op # "label") => p \in tests
             /\ \A p \in tests :
                   PathTo(Len(Seg) - 1, p) = <<Ins("jump", <<T>>)>> \o SubSeq(Seg, 1, p)
    /\ (WhileAtBody /\ SimpleCond(Args[1]) /\ \A i \in 2..Len(Args) : SimpleStmt(Args[i])) =>
          /\ Seg = WhileStream(Args[1], SubSeq(Args, 2, Len(Args)), cur.slots0, cur.gen0)
          /\ Len(slot_to_name) - cur.slots0 = (IF Args[1].tag = "symbol" THEN 0 ELSE 1)

C15_Witness ==
    /\ WhileAtBody
    /\ cur.form = App("while", <<LtA5, App("set", <<Sym("a"), Num("5")>>)>>)
    /\ Len(Seg) = 7
    /\ pc = "body"

IsCallForm(x) ==
    x.tag = "tuple" /\ x.name \in {"f", "g", "syscall"}
DoAtBody ==
    /\ Compiled
    /\ cur.form.tag = "tuple" /\ cur.form.name = "do" /\ Len(Args) > 0

\* C16 as stated: a `do` compiled with results discarded compiles its last
\* form with results discarded too, so a call or syscall in last position gets
\* no result slot and its instruction carries no destination, as for the same
\* call compiled directly in a discarded position.
C16_Original ==
    (DoAtBody /\ IsCallForm(Args[Len(Args)])) =>
        /\ Seg[Len(Seg)].op \in {"call", "syscall"}
        /\ Seg[Len(Seg)].args[2] = NilV
        /\ cur.res = NilV
        /\ Len(Args) = 1 => Len(slot_to_name) = cur.slots0

RECURSIVE InMix(_)
\* forms built from names, literals, def / var, the, arithmetic, comparison
\* and if only
InMix(x) ==
    \/ x.tag = "symbol" \/ IsLiteral(x)
    \/ /\ x.tag = "tuple"
       /\ x.name \in ArithOps \cup CompOps \cup {"def", "var", "the", "if"}
       /\ \A i \in 1..Len(x.args) : InMix(x.args[i])

\* C17 as stated: in a list handed to the backend every bind has an allocated
\* slot as first operand and a type name as second operand.
C17_Original ==
    (pc = "handed" /\ (cur.live => InMix(cur.form))) =>
        \A p \in 1..Len(ir_asm) :
            ir_asm[p].op = "bind" =>
                /\ Len(ir_asm[p].args) = 2
                /\ IsSlot(ir_asm[p].args[1])
                /\ ir_asm[p].args[2].k = "symbol"

====
